---- MODULE Spec2Model ----
(***************************************************************************)
(* Model of package pcd (src/pcd.go): the Podcast aggregate with its Sync  *)
(* and Load operations, the episode extractor parseEpisodes and the cache  *)
(* codec toGOB64 / fromGOB64, the listing Podcast.String, the request Sync *)
(* builds, Episode.Download, and two Podcast instances run interleaved.    *)
(*                                                                         *)
(* Strings are sequences of bytes (0..255).  A cache blob is a sequence of *)
(* base64 symbols: 0..63 are the alphabet positions, Pad is '=' and any    *)
(* larger value is a byte outside the alphabet.                            *)
(***************************************************************************)
EXTENDS Integers, Sequences, FiniteSets, TLC

(***************************************************************************)
(* Bounds of the model.                                                    *)
(***************************************************************************)
\* longest feed document (in items) a Sync of Spec receives
MaxItems == 2
\* longest feed document (in items) handed to parseEpisodes in SpecExtract
MaxFeedItems == 3
\* longest Episode sequence handed to the codec in SpecCodec
MaxEps == 2

(***************************************************************************)
(* Values.                                                                 *)
(***************************************************************************)
RECURSIVE BigEndian(_, _)
\* n as exactly k bytes, most significant first
BigEndian(n, k) ==
    IF k = 0 THEN <<>> ELSE Append(BigEndian(n \div 256, k - 1), n % 256)

RECURSIVE FromBigEndian(_)
FromBigEndian(bs) ==
    IF bs = <<>> THEN 0
    ELSE 256 * FromBigEndian(SubSeq(bs, 1, Len(bs) - 1)) + bs[Len(bs)]

RECURSIVE ByteLen(_)
ByteLen(n) == IF n < 256 THEN 1 ELSE 1 + ByteLen(n \div 256)

\* all sequences over S of length at most n
SeqsUpTo(S, n) == UNION {[1..k -> S] : k \in 0..n}

\* time.Time: seconds and nanoseconds as the big-endian bytes of the int64 /
\* int32 the value holds, utc = "the location is UTC", off = zone offset in
\* minutes east of UTC when the location is not UTC
Time(sec, utc, off) ==
    [sec |-> BigEndian(sec, 8), nsec |-> BigEndian(0, 4), utc |-> utc, off |-> off]

\* the zero time.Time (the Date of Episode{})
ZeroTime == Time(0, TRUE, 0)

\* type Episode struct
Episode(title, date, url, length) ==
    [Title |-> title, Date |-> date, URL |-> url, Length |-> length]

\* Episode{}
ZeroEpisode == Episode(<<>>, ZeroTime, <<>>, 0)

(***************************************************************************)
(* encoding/gob, as toGOB64 and fromGOB64 use it on a []Episode.           *)
(***************************************************************************)
\* gob's id of the first user-defined type, here []Episode
SliceTypeId == 65

\* largest unsigned value the model represents exactly; a longer encoded
\* integer with a non-zero high part decodes to this value
Huge == 16777216

\* an unsigned integer: one byte below 128, else the negated byte count
\* followed by the bytes, most significant first
encodeUint(n) ==
    IF n < 128 THEN <<n>> ELSE <<256 - ByteLen(n)>> \o BigEndian(n, ByteLen(n))

\* a signed integer: the sign goes to bit 0
encodeInt(i) == encodeUint(IF i < 0 THEN 2 * (-i - 1) + 1 ELSE 2 * i)

\* a string or byte slice: length, then the bytes
encodeBytes(s) == encodeUint(Len(s)) \o s

\* time.Time.MarshalBinary (Time is a GobEncoder): version, seconds,
\* nanoseconds, zone offset in minutes as int16 with -1 standing for UTC
MarshalBinary(t) ==
    IF ~t.utc /\ (t.off < -32768 \/ t.off = -1 \/ t.off > 32767)
    THEN [err |-> TRUE, bytes |-> <<>>]
    ELSE [err |-> FALSE,
          bytes |-> <<1>> \o t.sec \o t.nsec
                    \o BigEndian((IF t.utc THEN -1 ELSE t.off) % 65536, 2)]

\* the encoded value of each field of e, <<>> for a zero-valued field (gob
\* does not send the zero-valued fields of a struct)
FieldBytes(e) ==
    << IF e.Title = <<>> THEN <<>> ELSE encodeBytes(e.Title),
       IF e.Date = ZeroTime THEN <<>> ELSE encodeBytes(MarshalBinary(e.Date).bytes),
       IF e.URL = <<>> THEN <<>> ELSE encodeBytes(e.URL),
       IF e.Length = 0 THEN <<>> ELSE encodeInt(e.Length) >>

RECURSIVE encodeFields(_, _, _)
\* the sent fields, each preceded by its distance to the previously sent
\* field, then the 0 that ends the struct
encodeFields(fb, i, prev) ==
    IF i > Len(fb) THEN <<0>>
    ELSE IF fb[i] = <<>> THEN encodeFields(fb, i + 1, prev)
    ELSE encodeUint(i - prev) \o fb[i] \o encodeFields(fb, i + 1, i)

encodeStruct(e) == encodeFields(FieldBytes(e), 1, 0)

RECURSIVE encodeElems(_)
encodeElems(eps) ==
    IF eps = <<>> THEN <<>> ELSE encodeStruct(Head(eps)) \o encodeElems(Tail(eps))

\* a message: its length, then its content
Message(payload) == encodeUint(Len(payload)) \o payload

\* the type definition the encoder sends before the first value; the wire
\* type is abridged to the first letters of the field names
GobTypeDefs == Message(encodeInt(-SliceTypeId) \o <<84, 68, 85, 76>>)

\* gob.Encoder.Encode of a []Episode
gobEncode(eps) ==
    IF \E i \in 1..Len(eps) : MarshalBinary(eps[i].Date).err
    THEN [err |-> TRUE, bytes |-> <<>>]
    ELSE [err |-> FALSE,
          bytes |-> GobTypeDefs
                    \o Message(encodeInt(SliceTypeId) \o <<0>>
                               \o encodeUint(Len(eps)) \o encodeElems(eps))]

Fail == [ok |-> FALSE, val |-> 0, pos |-> 0]

\* reads an unsigned integer of bs at position p
decodeUint(bs, p) ==
    IF p > Len(bs) THEN Fail
    ELSE IF bs[p] < 128 THEN [ok |-> TRUE, val |-> bs[p], pos |-> p + 1]
    ELSE LET n == 256 - bs[p] IN
         IF n > 8 \/ p + n > Len(bs) THEN Fail
         ELSE LET hi == SubSeq(bs, p + 1, p + n - 3)
                  lo == SubSeq(bs, IF n > 3 THEN p + n - 2 ELSE p + 1, p + n)
              IN [ok |-> TRUE,
                  val |-> IF \E k \in 1..Len(hi) : hi[k] # 0
                          THEN Huge ELSE FromBigEndian(lo),
                  pos |-> p + n + 1]

decodeInt(bs, p) ==
    LET u == decodeUint(bs, p) IN
    IF ~u.ok THEN Fail
    ELSE [u EXCEPT !.val = IF u.val % 2 = 1 THEN -((u.val - 1) \div 2) - 1
                           ELSE u.val \div 2]

\* reads a string or byte slice: fails when the length exceeds the input
decodeBytes(bs, p) ==
    LET n == decodeUint(bs, p) IN
    IF ~n.ok THEN Fail
    ELSE IF n.pos + n.val - 1 > Len(bs) THEN Fail
    ELSE [ok |-> TRUE, val |-> SubSeq(bs, n.pos, n.pos + n.val - 1),
          pos |-> n.pos + n.val]

\* time.Time.UnmarshalBinary
UnmarshalBinary(data) ==
    IF Len(data) = 0 \/ data[1] # 1 \/ Len(data) # 15 THEN [err |-> TRUE, t |-> ZeroTime]
    ELSE LET o == FromBigEndian(SubSeq(data, 14, 15))
             off == IF o >= 32768 THEN o - 65536 ELSE o
         IN [err |-> FALSE,
             t |-> [sec |-> SubSeq(data, 2, 9), nsec |-> SubSeq(data, 10, 13),
                    utc |-> off = -1, off |-> IF off = -1 THEN 0 ELSE off]]

RECURSIVE decodeStruct(_, _, _, _)
\* reads the fields of one Episode into e, which starts as the zero Episode
decodeStruct(bs, p, fieldnum, e) ==
    LET d == decodeUint(bs, p) IN
    IF ~d.ok THEN Fail
    ELSE IF d.val = 0 THEN [ok |-> TRUE, val |-> e, pos |-> d.pos]
    ELSE LET f == fieldnum + d.val IN
         IF f > 4 THEN Fail
         ELSE IF f = 4 THEN
              LET v == decodeInt(bs, d.pos) IN
              IF ~v.ok THEN Fail
              ELSE decodeStruct(bs, v.pos, f, [e EXCEPT !.Length = v.val])
         ELSE LET s == decodeBytes(bs, d.pos) IN
              IF ~s.ok THEN Fail
              ELSE IF f = 1 THEN decodeStruct(bs, s.pos, f, [e EXCEPT !.Title = s.val])
              ELSE IF f = 3 THEN decodeStruct(bs, s.pos, f, [e EXCEPT !.URL = s.val])
              ELSE LET u == UnmarshalBinary(s.val) IN
                   IF u.err THEN Fail
                   ELSE decodeStruct(bs, s.pos, f, [e EXCEPT !.Date = u.t])

RECURSIVE decodeSlice(_, _, _, _)
\* reads n Episodes; fails when the input ends before the n-th
decodeSlice(bs, p, n, acc) ==
    IF n = 0 THEN [ok |-> TRUE, val |-> acc, pos |-> p]
    ELSE LET e == decodeStruct(bs, p, 0, ZeroEpisode) IN
         IF ~e.ok THEN Fail
         ELSE decodeSlice(bs, e.pos, n - 1, Append(acc, e.val))

\* gob.Decoder.Decode into a nil []Episode: the type definition, then one
\* value message; what follows the message is not read
gobDecode(bytes) ==
    LET h == Len(GobTypeDefs) IN
    IF Len(bytes) < h \/ SubSeq(bytes, 1, h) # GobTypeDefs
    THEN [err |-> TRUE, episodes |-> <<>>]
    ELSE LET m == decodeBytes(bytes, h + 1) IN
         IF ~m.ok THEN [err |-> TRUE, episodes |-> <<>>]
         ELSE LET id == decodeInt(m.val, 1) IN
              IF ~id.ok \/ id.val # SliceTypeId
                 \/ id.pos > Len(m.val) \/ m.val[id.pos] # 0
              THEN [err |-> TRUE, episodes |-> <<>>]
              ELSE LET n == decodeUint(m.val, id.pos + 1) IN
                   IF ~n.ok THEN [err |-> TRUE, episodes |-> <<>>]
                   ELSE LET s == decodeSlice(m.val, n.pos, n.val, <<>>) IN
                        IF ~s.ok THEN [err |-> TRUE, episodes |-> <<>>]
                        ELSE [err |-> FALSE, episodes |-> s.val]

(***************************************************************************)
(* encoding/base64, StdEncoding.                                           *)
(***************************************************************************)
\* the padding character '=' (one past the 64 alphabet positions)
Pad == 64

\* encoder.Write: the complete 3-byte groups are encoded, four symbols each;
\* the rest is kept in the encoder until Close
base64Write(bs) ==
    [i \in 1..(4 * (Len(bs) \div 3)) |->
        LET g == 3 * ((i - 1) \div 4)
            k == (i - 1) % 4
        IN CASE k = 0 -> bs[g + 1] \div 4
             [] k = 1 -> (bs[g + 1] % 4) * 16 + bs[g + 2] \div 16
             [] k = 2 -> (bs[g + 2] % 16) * 4 + bs[g + 3] \div 64
             [] OTHER -> bs[g + 3] % 64]

\* encoder.Close: the bytes kept since the last complete group, padded
base64Close(bs) ==
    LET r == Len(bs) % 3
        b1 == bs[Len(bs) - r + 1]
        b2 == bs[Len(bs)]
    IN IF r = 0 THEN <<>>
       ELSE IF r = 1 THEN << b1 \div 4, (b1 % 4) * 16, Pad, Pad >>
       ELSE << b1 \div 4, (b1 % 4) * 16 + b2 \div 16, (b2 % 16) * 4, Pad >>

RECURSIVE FullQuanta(_, _)
\* the number of leading quanta of s, counted from the q-th, that hold four
\* alphabet symbols
FullQuanta(s, q) ==
    IF 4 * q + 4 > Len(s) THEN q
    ELSE IF \E k \in 1..4 : s[4 * q + k] >= Pad THEN q
    ELSE FullQuanta(s, q + 1)

\* the bytes base64.NewDecoder delivers before the end of the input or the
\* first malformed quantum: a reader gets every byte decoded so far before
\* it gets the error.  A quantum ending in padding is the last one.
base64Read(s) ==
    LET q == FullQuanta(s, 0)
        full == [i \in 1..(3 * q) |->
                    LET g == 4 * ((i - 1) \div 3)
                        k == (i - 1) % 3
                    IN CASE k = 0 -> s[g + 1] * 4 + s[g + 2] \div 16
                         [] k = 1 -> (s[g + 2] % 16) * 16 + s[g + 3] \div 4
                         [] OTHER -> (s[g + 3] % 4) * 64 + s[g + 4]]
        g == 4 * q
    IN IF g + 4 > Len(s) THEN full
       ELSE IF s[g + 1] >= Pad \/ s[g + 2] >= Pad \/ s[g + 3] > Pad \/ s[g + 4] > Pad
            THEN full
       ELSE IF s[g + 3] = Pad
            THEN (IF s[g + 4] = Pad
                  THEN Append(full, s[g + 1] * 4 + s[g + 2] \div 16) ELSE full)
       ELSE full \o << s[g + 1] * 4 + s[g + 2] \div 16,
                       (s[g + 2] % 16) * 16 + s[g + 3] \div 4 >>

(***************************************************************************)
(* The cache codec.                                                        *)
(***************************************************************************)
\* toGOB64 without the deferred encoder.Close()
toGOB64_NoClose(episodes) ==
    LET g == gobEncode(episodes) IN
    IF g.err THEN [err |-> TRUE, blob |-> <<>>]
    ELSE [err |-> FALSE, blob |-> base64Write(g.bytes)]

\* func toGOB64(episodes []Episode) (io.Reader, error)
toGOB64(episodes) ==
    LET g == gobEncode(episodes) IN
    IF g.err THEN [err |-> TRUE, blob |-> <<>>]
    ELSE [err |-> FALSE, blob |-> base64Write(g.bytes) \o base64Close(g.bytes)]

\* fromGOB64 handing the file to gob without the base64 decoder
fromGOB64_NoBase64(content) == gobDecode(content)

\* func fromGOB64(content io.Reader) ([]Episode, error)
fromGOB64(content) == gobDecode(base64Read(content))

(***************************************************************************)
(* The episode extractor.                                                  *)
(***************************************************************************)
\* time.Parse(rss.Layout, s) on the date strings the model's feeds carry:
\* two well-formed dates, a well-formed date whose zone is one minute west
\* of UTC, and every other string fails to parse
ParseTime(s) ==
    CASE s = "Mon, 02 Jan 2006 15:04:05 +0000" ->
             [err |-> FALSE, t |-> Time(1, FALSE, 0)]
      [] s = "Tue, 03 Jan 2006 15:04:05 +0100" ->
             [err |-> FALSE, t |-> Time(2, FALSE, 60)]
      [] s = "Wed, 04 Jan 2006 15:04:05 -0001" ->
             [err |-> FALSE, t |-> Time(3, FALSE, -1)]
      [] OTHER -> [err |-> TRUE, t |-> ZeroTime]

\* an item of the parsed feed: rss.Item with its Title, Date and Enclosure
Item(title, date, url, length) ==
    [Title |-> title, Date |-> date, URL |-> url, Length |-> length]

RECURSIVE extractBreak(_, _)
\* the loop of parseEpisodes leaving at the first unparseable date
extractBreak(items, episodes) ==
    IF items = <<>> THEN episodes
    ELSE LET item == Head(items)
             p == ParseTime(item.Date)
         IN IF p.err THEN episodes
            ELSE extractBreak(Tail(items),
                     Append(episodes, Episode(item.Title, p.t, item.URL, item.Length)))

RECURSIVE extract(_, _)
\* for _, item := range feed.Channel.Items { ... }
extract(items, episodes) ==
    IF items = <<>> THEN episodes
    ELSE LET item == Head(items)
             p == ParseTime(item.Date)
         IN IF p.err THEN extract(Tail(items), episodes)
            ELSE extract(Tail(items),
                     Append(episodes, Episode(item.Title, p.t, item.URL, item.Length)))

\* parseEpisodes leaving its loop at the first item whose date does not parse
parseEpisodes_Break(content) ==
    IF ~content.ok THEN [err |-> TRUE, episodes |-> <<>>]
    ELSE [err |-> FALSE, episodes |-> extractBreak(content.items, <<>>)]

\* func parseEpisodes(content io.Reader) ([]Episode, error); a content is
\* what rss.Parse makes of the bytes: ok = FALSE when it returns an error
parseEpisodes(content) ==
    IF ~content.ok THEN [err |-> TRUE, episodes |-> <<>>]
    ELSE [err |-> FALSE, episodes |-> extract(content.items, <<>>)]

(***************************************************************************)
(* State.                                                                  *)
(***************************************************************************)
VARIABLES
    Episodes,  \* Podcast.Episodes
    Feed,      \* TRUE when Podcast.Feed is a URL http.NewRequest accepts
    dirExists, \* the directory Podcast.Path exists
    feedFile,  \* the file <Path>/.feed: exists, perm (it may be opened), data
    op,        \* the last operation called on the Podcast: "new", "Sync", "Load"
    err,       \* the error that operation returned
    net,       \* the HTTP exchange of that operation
    afterSync, \* the operation before the last one was a Sync that returned nil
    content,   \* SpecExtract: the feed handed to parseEpisodes
    parsed,    \* SpecExtract: what parseEpisodes returned
    estage,    \* SpecExtract: "start", "done"
    xs,        \* SpecCodec: the Episode sequence handed to toGOB64
    blob,      \* SpecCodec: the blob under test
    decoded,   \* SpecCodec: what fromGOB64 returned for blob
    cstage,    \* SpecCodec: "start", "encodeFailed", "encoded", "damaged",
               \* "decoded", "decodedDamaged"
    last,      \* the course of the last operation: the statement it returned
               \* at, the body it received, the file handle it left open
    listing,   \* SpecString: the lines Podcast.String rendered
    sstage,    \* SpecString: "start", "done"
    dfiles,    \* SpecDownload: the files of the destination directory, by name
    observed,  \* SpecDownload: the bytes the writer argument received
    dl,        \* SpecDownload: the last Download call and what it returned
    Username,  \* SpecRequest: Podcast.Username
    Password,  \* SpecRequest: Podcast.Password
    req,       \* SpecRequest: the request Sync built
    pods,      \* SpecTwo: the two Podcast instances and their calls in progress
    disk       \* SpecTwo: the cache file of each Path

podVars == <<Episodes, Feed, dirExists, feedFile, op, err, net, afterSync, last>>
extractVars == <<content, parsed, estage>>
codecVars == <<xs, blob, decoded, cstage>>
stringVars == <<listing, sstage>>
downloadVars == <<dfiles, observed, dl>>
requestVars == <<Username, Password, req>>
twoVars == <<pods, disk>>
vars == <<podVars, extractVars, codecVars, stringVars, downloadVars, requestVars, twoVars>>

NoFile == [exists |-> FALSE, perm |-> FALSE, data |-> <<>>]
NoRequest == [sent |-> FALSE, status |-> 0, bodyOpen |-> FALSE]
NotParsed == [err |-> FALSE, episodes |-> <<>>]
NotDecoded == [err |-> FALSE, episodes |-> <<>>]
NoContent == [ok |-> FALSE, items |-> <<>>]
NoCall == [stage |-> "off", content |-> NoContent, fileOpen |-> FALSE]
NoDownload ==
    [stage |-> "off", err |-> "nil", url |-> <<>>, status |-> 0, body |-> <<>>,
     writer |-> FALSE, bodyOpen |-> FALSE, fileOpen |-> FALSE]
NoReq == [built |-> FALSE, auth |-> FALSE, user |-> <<>>, pass |-> <<>>]

\* the variables of a part of the model that a specification does not use
PodIdle ==
    /\ Episodes = <<>> /\ Feed = TRUE /\ dirExists = FALSE /\ feedFile = NoFile
    /\ op = "off" /\ err = "nil" /\ net = NoRequest /\ afterSync = FALSE
    /\ last = NoCall
ExtractIdle == content = NoContent /\ parsed = NotParsed /\ estage = "off"
CodecIdle == xs = <<>> /\ blob = <<>> /\ decoded = NotDecoded /\ cstage = "off"
StringIdle == listing = <<>> /\ sstage = "off"
DownloadIdle == dfiles = <<>> /\ observed = <<>> /\ dl = NoDownload
RequestIdle == Username = <<>> /\ Password = <<>> /\ req = NoReq
TwoIdle == pods = <<>> /\ disk = <<>>

(***************************************************************************)
(* Feeds.                                                                  *)
(***************************************************************************)
FeedItems ==
    { Item(<<65>>, "Mon, 02 Jan 2006 15:04:05 +0000", <<117>>, 300),
      Item(<<>>, "Tue, 03 Jan 2006 15:04:05 +0100", <<118>>, 7),
      Item(<<66>>, "Wed, 04 Jan 2006 15:04:05 -0001", <<>>, 0),
      Item(<<67>>, "yesterday", <<119>>, 1) }

\* what rss.Parse can make of a response body: an error, or a feed of at
\* most n items
Contents(n) ==
    {NoContent} \cup {[ok |-> TRUE, items |-> is] : is \in SeqsUpTo(FeedItems, n)}

(***************************************************************************)
(* Podcast.Sync and Podcast.Load.                                          *)
(***************************************************************************)
\* net/http status codes named in Sync
StatusOK == 200
StatusUnauthorized == 401
StatusForbidden == 403
StatusNotFound == 404
StatusInternalServerError == 500

\* the status codes a feed server answers with in the model
Statuses ==
    {StatusOK, StatusUnauthorized, StatusForbidden, StatusNotFound,
     StatusInternalServerError, 503}

\* the response bodies a Sync of Spec receives: the dropping of items with
\* an unparseable date is exercised in SpecExtract
SyncContents ==
    {NoContent}
    \cup {[ok |-> TRUE, items |-> is] :
            is \in SeqsUpTo({i \in FeedItems : i.Date # "yesterday"}, MaxItems)}

\* what client.Do returns: a transport error (status 0, no response), or a
\* response with a status and a body
Responses ==
    {[status |-> 0, content |-> NoContent]}
    \cup {[status |-> c, content |-> NoContent] : c \in Statuses \ {StatusOK}}
    \cup {[status |-> StatusOK, content |-> b] : b \in SyncContents}

\* what the file system does to the persistence stage of one Sync: nothing,
\* MkdirAll fails, os.Create fails, or the write fails after part of the blob
Faults == {"none", "mkdir", "create", "write"}

\* the symbols of b that reached the file when the write failed: the first half
Written(b) == SubSeq(b, 1, Len(b) \div 2)

\* the switch on resp.StatusCode with 401 falling to the default case
statusError_Unauthorized(code) ==
    CASE code = StatusOK -> "nil"
      [] code = StatusForbidden -> "ErrAccessDenied"
      [] code = StatusNotFound -> "ErrFeedNotFound"
      [] OTHER -> "ErrRequestFailed"

\* switch resp.StatusCode { ... }: the error Sync returns for a status
statusError(code) ==
    CASE code = StatusOK -> "nil"
      [] code \in {StatusForbidden, StatusUnauthorized} -> "ErrAccessDenied"
      [] code = StatusNotFound -> "ErrFeedNotFound"
      [] code = StatusInternalServerError -> "ErrRequestFailed"
      [] OTHER -> "ErrRequestFailed"

\* the state a call leaves: the fields it may write and what it returns
Outcome(episodes, dir, file, e, n) ==
    [Episodes |-> episodes, dirExists |-> dir, feedFile |-> file, err |-> e, net |-> n]

\* the outcome o of a Sync that returned at the statement stage: "request"
\* (NewRequest), "fetch" (client.Do), "status" (the switch), "parse",
\* "mkdir", "create", "encode", "write" (io.Copy) or "done" (return nil)
At(stage, o) ==
    [Episodes |-> o.Episodes, dirExists |-> o.dirExists, feedFile |-> o.feedFile,
     err |-> o.err, net |-> o.net, stage |-> stage]

\* func (p *Podcast) Sync() error, on response resp with file system fault,
\* for a Podcast with these Episodes whose Feed NewRequest accepts or not,
\* with the directory Path existing or not (dir) and the cache file as in file
SyncOn(feed, episodes, dir, file, resp, fault) ==
    IF ~feed THEN
        At("request", Outcome(episodes, dir, file, "ErrCouldNotSync", NoRequest))
    ELSE IF resp.status = 0 THEN
        At("fetch", Outcome(episodes, dir, file, "ErrRequestFailed",
                            [sent |-> TRUE, status |-> 0, bodyOpen |-> FALSE]))
    ELSE IF statusError(resp.status) # "nil" THEN
        \* returns before defer resp.Body.Close() is reached
        At("status", Outcome(episodes, dir, file, statusError(resp.status),
                             [sent |-> TRUE, status |-> resp.status, bodyOpen |-> TRUE]))
    ELSE
        LET p == parseEpisodes(resp.content)
            closed == [sent |-> TRUE, status |-> resp.status, bodyOpen |-> FALSE]
            created == [exists |-> TRUE, perm |-> TRUE, data |-> <<>>]
            enc == toGOB64(p.episodes)
        IN IF p.err THEN
               At("parse", Outcome(p.episodes, dir, file, "ErrParserIssue", closed))
           ELSE IF ~dir /\ fault = "mkdir" THEN
               At("mkdir", Outcome(p.episodes, dir, file,
                                   "ErrFilesystemError", closed))
           ELSE IF fault = "create" \/ (file.exists /\ ~file.perm) THEN
               At("create", Outcome(p.episodes, TRUE, file,
                                    "ErrFilesystemError", closed))
           ELSE IF enc.err THEN
               At("encode", Outcome(p.episodes, TRUE, created, "ErrEncodeError", closed))
           ELSE IF fault = "write" THEN
               At("write", Outcome(p.episodes, TRUE,
                                   [created EXCEPT !.data = Written(enc.blob)],
                                   "ErrFilesystemError", closed))
           ELSE
               At("done", Outcome(p.episodes, TRUE, [created EXCEPT !.data = enc.blob],
                                  "nil", closed))

\* p.Sync() on the Podcast of Spec
SyncOutcome(resp, fault) == SyncOn(Feed, Episodes, dirExists, feedFile, resp, fault)

\* f, err := os.Create(path) gave Sync a handle: it returns at a later statement
SyncOpensFile(stage) == stage \in {"encode", "write", "done"}

\* f.Close() as the last statement of Sync instead of a defer
SyncClosesFile_AtEnd(stage) == stage = "done"

\* defer f.Close(), registered as soon as os.Create succeeded, runs at every
\* return after it
SyncClosesFile(stage) == stage \in {"encode", "write", "done"}

\* the course of one Sync that returned at stage on response resp
SyncCourse(stage, resp) ==
    [stage |-> stage,
     content |-> IF stage = "request" THEN NoContent ELSE resp.content,
     fileOpen |-> SyncOpensFile(stage) /\ ~SyncClosesFile(stage)]

\* func (p *Podcast) Load() error, for a Podcast with these Episodes and the
\* cache file as in file
LoadOn(episodes, dir, file) ==
    IF ~file.exists \/ ~file.perm THEN
        Outcome(episodes, dir, file, "ErrCouldNotReadFromCache", NoRequest)
    ELSE
        LET d == fromGOB64(file.data)
        IN Outcome(d.episodes, dir, file,
                   IF d.err THEN "ErrCouldNotReadFromCache" ELSE "nil", NoRequest)

\* the statement at which Load returns: "open" (os.Open), "decode" (fromGOB64)
\* or "done" (return nil)
LoadStage ==
    IF ~feedFile.exists \/ ~feedFile.perm THEN "open"
    ELSE IF fromGOB64(feedFile.data).err THEN "decode"
    ELSE "done"

\* f, err := os.Open(path) gave Load a handle
LoadOpensFile(stage) == stage \in {"decode", "done"}

\* defer f.Close() of Load
LoadClosesFile(stage) == stage \in {"decode", "done"}

\* the course of one Load
LoadCourse ==
    [stage |-> LoadStage, content |-> NoContent,
     fileOpen |-> LoadOpensFile(LoadStage) /\ ~LoadClosesFile(LoadStage)]

\* Load assigning the (nil) result before it looks at the error of os.Open
LoadOutcome_ClearsFirst ==
    IF ~feedFile.exists \/ ~feedFile.perm THEN
        Outcome(<<>>, dirExists, feedFile, "ErrCouldNotReadFromCache", NoRequest)
    ELSE
        LET d == fromGOB64(feedFile.data)
        IN Outcome(d.episodes, dirExists, feedFile,
                   IF d.err THEN "ErrCouldNotReadFromCache" ELSE "nil", NoRequest)

\* Load opening the cache file with os.Create instead of os.Open
LoadOutcome_Creates ==
    IF ~feedFile.exists \/ ~feedFile.perm THEN
        Outcome(Episodes, dirExists, feedFile, "ErrCouldNotReadFromCache", NoRequest)
    ELSE
        LET d == fromGOB64(<<>>)
        IN Outcome(d.episodes, dirExists, [feedFile EXCEPT !.data = <<>>],
                   IF d.err THEN "ErrCouldNotReadFromCache" ELSE "nil", NoRequest)

\* Load decoding into a local and assigning p.Episodes only when err is nil
LoadOutcome_KeepsOnDecodeError ==
    IF ~feedFile.exists \/ ~feedFile.perm THEN
        Outcome(Episodes, dirExists, feedFile, "ErrCouldNotReadFromCache", NoRequest)
    ELSE
        LET d == fromGOB64(feedFile.data)
        IN Outcome(IF d.err THEN Episodes ELSE d.episodes, dirExists, feedFile,
                   IF d.err THEN "ErrCouldNotReadFromCache" ELSE "nil", NoRequest)

\* p.Load() on the Podcast of Spec
LoadOutcome == LoadOn(Episodes, dirExists, feedFile)

\* the call returns: the Podcast, the file system and the exchange are as o says
Return(name, o) ==
    /\ Episodes' = o.Episodes
    /\ dirExists' = o.dirExists
    /\ feedFile' = o.feedFile
    /\ err' = o.err
    /\ net' = o.net
    /\ op' = name
    /\ afterSync' = (op = "Sync" /\ err = "nil")
    /\ UNCHANGED <<Feed, extractVars, codecVars, stringVars, downloadVars,
                   requestVars, twoVars>>

\* Sync parsing into a local and assigning p.Episodes only before return nil
Sync_Rollback ==
    /\ op # "off"
    /\ \E resp \in Responses : \E fault \in Faults :
            \E o \in {SyncOutcome(resp, fault)} :
               Return("Sync", IF o.err = "nil" THEN o ELSE [o EXCEPT !.Episodes = Episodes])
                 /\ last' = SyncCourse(o.stage, resp)

\* Sync calling os.MkdirAll before parseEpisodes
Sync_MkdirFirst ==
    /\ op # "off"
    /\ \E resp \in Responses : \E fault \in Faults :
            \E o \in {SyncOutcome(resp, fault)} :
               Return("Sync", IF o.err = "ErrParserIssue"
                                THEN [o EXCEPT !.dirExists = TRUE] ELSE o)
                 /\ last' = SyncCourse(o.stage, resp)

\* Sync returning ErrFilesystemError when toGOB64 fails
Sync_EncodeAsFilesystem ==
    /\ op # "off"
    /\ \E resp \in Responses : \E fault \in Faults :
            \E o \in {SyncOutcome(resp, fault)} :
               Return("Sync", IF o.err = "ErrEncodeError"
                                THEN [o EXCEPT !.err = "ErrFilesystemError"] ELSE o)
                 /\ last' = SyncCourse(o.stage, resp)

Sync ==
    /\ op # "off"
    /\ \E resp \in Responses : \E fault \in Faults :
            \E o \in {SyncOutcome(resp, fault)} :
               Return("Sync", o) /\ last' = SyncCourse(o.stage, resp)

Load ==
    /\ op # "off"
    /\ \E o \in {LoadOutcome} : Return("Load", o) /\ last' = LoadCourse

\* the cache files a Podcast may find at its Path when it is constructed
InitialFiles ==
    {NoFile}
    \cup {[exists |-> TRUE, perm |-> pm, data |-> d] :
            pm \in BOOLEAN,
            d \in {<<>>, <<65, 1>>,
                   toGOB64(<<Episode(<<66>>, Time(1, FALSE, 0), <<117>>, 5)>>).blob}}

Init ==
    /\ Episodes = <<>>
    /\ Feed \in BOOLEAN
    /\ feedFile \in InitialFiles
    /\ dirExists \in {feedFile.exists, TRUE}
    /\ op = "new"
    /\ err = "nil"
    /\ net = NoRequest
    /\ afterSync = FALSE
    /\ last = NoCall
    /\ ExtractIdle /\ CodecIdle /\ StringIdle /\ DownloadIdle /\ RequestIdle /\ TwoIdle

Next == Sync \/ Load

Spec == Init /\ [][Next]_vars

(***************************************************************************)
(* SpecExtract: parseEpisodes applied to bounded feeds.                    *)
(***************************************************************************)
ExtractInit ==
    /\ content \in Contents(MaxFeedItems)
    /\ parsed = NotParsed
    /\ estage = "start"
    /\ PodIdle /\ CodecIdle /\ StringIdle /\ DownloadIdle /\ RequestIdle /\ TwoIdle

\* episodes, err := parseEpisodes(content)
Extract ==
    /\ estage = "start"
    /\ parsed' = parseEpisodes(content)
    /\ estage' = "done"
    /\ UNCHANGED <<content, podVars, codecVars, stringVars, downloadVars,
                   requestVars, twoVars>>

ExtractNext == Extract

SpecExtract == ExtractInit /\ [][ExtractNext]_vars

(***************************************************************************)
(* SpecCodec: the codec applied to bounded Episode sequences.  A blob is   *)
(* encoded from xs, optionally cut short or altered in one symbol (what a  *)
(* damaged cache file holds), then decoded.                                *)
(***************************************************************************)
\* a Date whose zone offset MarshalBinary refuses (one minute west of UTC)
BadZoneTime == Time(3, FALSE, -1)

CodecEpisodes ==
    { ZeroEpisode,
      Episode(<<65>>, Time(1, FALSE, 0), <<117>>, 300),
      Episode(<<>>, Time(2, TRUE, 0), <<118>>, -1),
      Episode(<<66>>, BadZoneTime, <<>>, 0) }

CodecInit ==
    /\ xs \in SeqsUpTo(CodecEpisodes, MaxEps)
    /\ blob = <<>>
    /\ decoded = NotDecoded
    /\ cstage = "start"
    /\ PodIdle /\ ExtractIdle /\ StringIdle /\ DownloadIdle /\ RequestIdle /\ TwoIdle

\* blob, err := toGOB64(xs)
Encode ==
    /\ cstage = "start"
    /\ blob' = toGOB64(xs).blob
    /\ cstage' = IF toGOB64(xs).err THEN "encodeFailed" ELSE "encoded"
    /\ UNCHANGED <<xs, decoded, podVars, extractVars, stringVars, downloadVars,
                   requestVars, twoVars>>

\* the stored blob loses its tail: a strict prefix remains (k = 0: an empty file)
Truncate ==
    /\ cstage = "encoded"
    /\ \E k \in 0..(Len(blob) - 1) : blob' = SubSeq(blob, 1, k)
    /\ cstage' = "damaged"
    /\ UNCHANGED <<xs, decoded, podVars, extractVars, stringVars, downloadVars,
                   requestVars, twoVars>>

\* one symbol of the stored blob is replaced by another alphabet symbol
Corrupt ==
    /\ cstage = "encoded"
    /\ \E i \in 1..Len(blob) : \E d \in {1, 4} :
          /\ blob[i] < Pad
          /\ blob' = [blob EXCEPT ![i] = (blob[i] + d) % 64]
    /\ cstage' = "damaged"
    /\ UNCHANGED <<xs, decoded, podVars, extractVars, stringVars, downloadVars,
                   requestVars, twoVars>>

\* episodes, err := fromGOB64(blob)
Decode ==
    /\ cstage \in {"encoded", "damaged"}
    /\ decoded' = fromGOB64(blob)
    /\ cstage' = IF cstage = "encoded" THEN "decoded" ELSE "decodedDamaged"
    /\ UNCHANGED <<xs, blob, podVars, extractVars, stringVars, downloadVars,
                   requestVars, twoVars>>

CodecNext == Encode \/ Truncate \/ Corrupt \/ Decode

SpecCodec == CodecInit /\ [][CodecNext]_vars

(***************************************************************************)
(* SpecString: Podcast.String applied to Episodes with bounded titles.     *)
(***************************************************************************)
\* most Episodes of a Podcast that String lists
MaxListed == 2

titleLength == 60

\* a title of n bytes
TitleOf(n) == [i \in 1..n |-> 97 + (i % 7)]

\* the title lengths a listed Episode has in the model
TitleLengths == {0, 1, 2, 55, 56, 57, 59, 60, 61, 62, 64}

ListedEpisodes ==
    {Episode(TitleOf(n), Time(1, FALSE, 0), <<117>>, 5) : n \in TitleLengths}

\* "..."
Dots == <<46, 46, 46>>

\* tl: the longest title length, at most titleLength
TitleWidth(episodes) ==
    LET longest == IF episodes = <<>> THEN 0
                   ELSE CHOOSE n \in {Len(episodes[i].Title) : i \in DOMAIN episodes} :
                          \A i \in DOMAIN episodes : Len(episodes[i].Title) <= n
    IN IF longest > titleLength THEN titleLength ELSE longest

\* title: the Title, or fmt.Sprintf("%s...", Title[0:(titleLength-4)])
ShownTitle(title) ==
    IF Len(title) > titleLength
    THEN SubSeq(title, 1, titleLength - 4) \o Dots
    ELSE title

\* %-<w>s: s, padded on the right with spaces to w bytes
PadRight(s, w) == IF Len(s) >= w THEN s ELSE s \o [i \in 1..(w - Len(s)) |-> 32]

\* the line String writes per Episode: the number index+1, the title as it
\* is handed to Sprintf, the title field Sprintf makes of it, and the Date
\* the line shows.  The heading line with Name and ID is not modelled.
String(episodes) ==
    [i \in DOMAIN episodes |->
        [index |-> i,
         title |-> ShownTitle(episodes[i].Title),
         field |-> PadRight(ShownTitle(episodes[i].Title), TitleWidth(episodes)),
         date |-> episodes[i].Date]]

StringInit ==
    /\ Episodes \in SeqsUpTo(ListedEpisodes, MaxListed)
    /\ Feed = TRUE /\ dirExists = FALSE /\ feedFile = NoFile
    /\ op = "off" /\ err = "nil" /\ net = NoRequest /\ afterSync = FALSE
    /\ last = NoCall
    /\ listing = <<>>
    /\ sstage = "start"
    /\ ExtractIdle /\ CodecIdle /\ DownloadIdle /\ RequestIdle /\ TwoIdle

\* p.String()
Render ==
    /\ sstage = "start"
    /\ listing' = String(Episodes)
    /\ sstage' = "done"
    /\ UNCHANGED <<podVars, extractVars, codecVars, downloadVars, requestVars, twoVars>>

StringNext == Render

SpecString == StringInit /\ [][StringNext]_vars

(***************************************************************************)
(* SpecRequest: the request Sync builds (lines 57-65) for bounded          *)
(* credentials.  Spec leaves the Authorization header out of its exchange. *)
(***************************************************************************)
\* longest Username and Password, in bytes
MaxCred == 2

\* the values of Podcast.Username and Podcast.Password: strings of at most
\* MaxCred bytes
Credentials == SeqsUpTo({97, 98}, MaxCred)

\* req, err := http.NewRequest("GET", p.Feed, nil) and the conditional
\* req.SetBasicAuth(p.Username, p.Password): the request that goes to
\* client.Do and the credentials its Authorization header carries, or no
\* request when NewRequest fails
NewRequest(feed, username, password) ==
    IF ~feed THEN NoReq
    ELSE IF username # <<>>
    THEN [built |-> TRUE, auth |-> TRUE, user |-> username, pass |-> password]
    ELSE [built |-> TRUE, auth |-> FALSE, user |-> <<>>, pass |-> <<>>]

RequestInit ==
    /\ Username \in Credentials
    /\ Password \in Credentials
    /\ req = NoReq
    /\ Episodes = <<>> /\ Feed \in BOOLEAN /\ dirExists = FALSE /\ feedFile = NoFile
    /\ op = "off" /\ err = "nil" /\ net = NoRequest /\ afterSync = FALSE
    /\ last = [NoCall EXCEPT !.stage = "start"]
    /\ ExtractIdle /\ CodecIdle /\ StringIdle /\ DownloadIdle /\ TwoIdle

\* Sync up to client.Do(req)
BuildRequest ==
    /\ op = "off" /\ last.stage = "start"
    /\ req' = NewRequest(Feed, Username, Password)
    /\ last' = [last EXCEPT !.stage = "built"]
    /\ UNCHANGED <<Episodes, Feed, dirExists, feedFile, op, err, net, afterSync,
                   Username, Password, extractVars, codecVars, stringVars,
                   downloadVars, twoVars>>

RequestNext == BuildRequest

SpecRequest == RequestInit /\ [][RequestNext]_vars

(***************************************************************************)
(* SpecDownload: Episode.Download into one destination directory.          *)
(***************************************************************************)
\* longest response body of a Download, in bytes
MaxBody == 2

\* Episode.URL values: "h/a", "h/d/a", "h/b" and "h/", whose last segment
\* is empty
URLs == {<<104, 47, 97>>, <<104, 47, 100, 47, 97>>, <<104, 47, 98>>, <<104, 47>>}

\* tokens := strings.Split(e.URL, "/"); filename := tokens[len(tokens)-1]
LastSegment(url) ==
    LET slashes == {i \in 1..Len(url) : url[i] = 47}
        start == IF slashes = {} THEN 1
                 ELSE 1 + CHOOSE i \in slashes : \A j \in slashes : j <= i
    IN SubSeq(url, start, Len(url))

\* the file names Download can create; filepath.Join(path, "") is the
\* directory itself, which os.Create cannot create
DownloadNames == {LastSegment(u) : u \in URLs} \ {<<>>}

\* the response bodies of the model: at most MaxBody bytes
Bodies == {[i \in 1..n |-> 7 + ((i + k) % 2)] : n \in 0..MaxBody, k \in {0, 1}}

\* a file that was in the directory before: longer than every body
OldFile == [exists |-> TRUE, data |-> [i \in 1..(MaxBody + 2) |-> 1]]
AbsentFile == [exists |-> FALSE, data |-> <<>>]

\* what http.Get returns: an error (status 0), or a response
DownloadResponses ==
    {[status |-> 0, body |-> <<>>]}
    \cup {[status |-> c, body |-> b] : c \in {StatusOK, StatusNotFound}, b \in Bodies}

\* what goes wrong after the status check: nothing, os.Create fails, a read
\* of the body fails, a write to the file fails, a write to the writer
\* argument fails
DownloadFaults == {"none", "create", "read", "write", "observer"}

\* the statement at which Download returns: "get" (http.Get), "status",
\* "create" (os.Create), "copy" (io.Copy) or "done" (return nil)
DownloadStage(url, resp, writer, fault) ==
    IF resp.status = 0 THEN "get"
    ELSE IF resp.status # 200 THEN "status"
    ELSE IF fault = "create" \/ LastSegment(url) = <<>> THEN "create"
    ELSE IF fault \in {"read", "write"} \/ (fault = "observer" /\ writer) THEN "copy"
    ELSE "done"

\* defer res.Body.Close(), registered before the status check
DownloadClosesBody(stage) == stage \in {"status", "create", "copy", "done"}

\* f, err := os.Create(fpath) gave Download a handle
DownloadOpensFile(stage) == stage \in {"copy", "done"}

\* defer f.Close() of Download
DownloadClosesFile(stage) == stage \in {"copy", "done"}

\* the destination opened without truncation: bytes of the old file beyond
\* the written ones stay
CreateAndWrite_NoTruncate(old, bytes) ==
    [exists |-> TRUE,
     data |-> bytes \o SubSeq(old.data, Len(bytes) + 1, Len(old.data))]

\* os.Create(fpath) and the bytes io.Copy wrote to f
CreateAndWrite(old, bytes) == [exists |-> TRUE, data |-> bytes]

\* func (e *Episode) Download(path string, writer io.Writer) error, for the
\* Episode with this URL; writer is TRUE when the argument is not nil.  When
\* io.Copy fails, the first half of the body has been read ("read"), or has
\* reached the file but not the writer ("write"), or the whole body has
\* reached the file and its first half the writer ("observer").
DownloadOutcome(url, resp, writer, fault) ==
    LET stage == DownloadStage(url, resp, writer, fault)
        name == LastSegment(url)
        toFile == IF stage = "copy" /\ fault \in {"read", "write"}
                  THEN Written(resp.body) ELSE resp.body
        toWriter == IF ~writer THEN <<>>
                    ELSE IF stage = "done" THEN resp.body
                    ELSE IF fault = "write" THEN <<>>
                    ELSE Written(resp.body)
    IN [files |-> IF stage \in {"copy", "done"}
                  THEN [dfiles EXCEPT ![name] = CreateAndWrite(dfiles[name], toFile)]
                  ELSE dfiles,
        observed |-> IF stage \in {"copy", "done"} THEN toWriter ELSE <<>>,
        dl |-> [stage |-> stage,
                err |-> IF stage = "done" THEN "nil" ELSE "ErrCouldNotDownload",
                url |-> url, status |-> resp.status,
                body |-> IF resp.status = 0 THEN <<>> ELSE resp.body,
                writer |-> writer,
                bodyOpen |-> stage # "get" /\ ~DownloadClosesBody(stage),
                fileOpen |-> DownloadOpensFile(stage) /\ ~DownloadClosesFile(stage)]]

\* the call returns
Downloaded(o) ==
    /\ dfiles' = o.files
    /\ observed' = o.observed
    /\ dl' = o.dl
    /\ UNCHANGED <<podVars, extractVars, codecVars, stringVars, requestVars, twoVars>>

\* Download calling os.Create before it looks at the status
Download_CreateFirst ==
    /\ dl.stage # "off"
    /\ \E url \in URLs : \E resp \in DownloadResponses :
       \E writer \in BOOLEAN : \E fault \in DownloadFaults :
        \E o \in {DownloadOutcome(url, resp, writer, fault)} :
        LET name == LastSegment(url)
        IN Downloaded(IF o.dl.stage = "status" /\ name # <<>>
                      THEN [o EXCEPT !.files[name] = CreateAndWrite(dfiles[name], <<>>)]
                      ELSE o)

Download ==
    /\ dl.stage # "off"
    /\ \E url \in URLs : \E resp \in DownloadResponses :
       \E writer \in BOOLEAN : \E fault \in DownloadFaults :
        \E o \in {DownloadOutcome(url, resp, writer, fault)} : Downloaded(o)

DownloadInit ==
    /\ dfiles \in [DownloadNames -> {AbsentFile, OldFile}]
    /\ observed = <<>>
    /\ dl = [NoDownload EXCEPT !.stage = "new"]
    /\ PodIdle /\ ExtractIdle /\ CodecIdle /\ StringIdle /\ RequestIdle /\ TwoIdle

DownloadNext == Download

SpecDownload == DownloadInit /\ [][DownloadNext]_vars

(***************************************************************************)
(* SpecHandles: the operations that open files and response bodies: a      *)
(* Podcast under Sync and Load, or a directory under Download.             *)
(***************************************************************************)
HandlesInit == Init \/ DownloadInit

HandlesNext == Sync \/ Load \/ Download

SpecHandles == HandlesInit /\ [][HandlesNext]_vars

(***************************************************************************)
(* SpecTwo: two Podcast instances whose calls of Sync and Load run         *)
(* statement by statement, interleaved, over one file system.              *)
(***************************************************************************)
\* most calls made on one instance
MaxCalls == 2

Pods == {1, 2}

\* the instance whose Path every instance uses: two instances on one cache file
PathOf_Shared(i) == 1

\* Podcast.Path of instance i: the instances have distinct paths
PathOf(i) == i

\* what a feed server answers in SpecTwo: not found, an unparseable body, a
\* feed of one item, a feed of one item whose Date toGOB64 cannot encode
TwoResponses ==
    {[status |-> StatusNotFound, content |-> NoContent],
     [status |-> StatusOK, content |-> NoContent],
     [status |-> StatusOK, content |->
        [ok |-> TRUE,
         items |-> <<Item(<<65>>, "Mon, 02 Jan 2006 15:04:05 +0000", <<117>>, 300)>>]],
     [status |-> StatusOK, content |->
        [ok |-> TRUE,
         items |-> <<Item(<<66>>, "Wed, 04 Jan 2006 15:04:05 -0001", <<>>, 0)>>]]}

\* the directory Path and the file <Path>/.feed
NoCache == [dir |-> FALSE, file |-> NoFile]
OldCache ==
    [dir |-> TRUE,
     file |-> [exists |-> TRUE, perm |-> TRUE,
               data |-> toGOB64(<<Episode(<<66>>, Time(1, FALSE, 0), <<117>>, 5)>>).blob]]

\* a Podcast on which no call has been made
NewPod ==
    [Episodes |-> <<>>, pc |-> "idle", kind |-> "none", resp |-> [status |-> 0, content |-> NoContent],
     fault |-> "none", blob |-> <<>>, err |-> "nil", calls |-> 0,
     start |-> [Episodes |-> <<>>, dir |-> FALSE, file |-> NoFile]]

TwoInit ==
    /\ pods = [i \in Pods |-> NewPod]
    /\ disk \in [Pods -> {NoCache, OldCache}]
    /\ PodIdle /\ ExtractIdle /\ CodecIdle /\ StringIdle /\ DownloadIdle /\ RequestIdle

TwoFrame ==
    UNCHANGED <<podVars, extractVars, codecVars, stringVars, downloadVars, requestVars>>

\* instance i is called: the state the call starts in is kept for comparison
Begin(i, kind, resp, pc) ==
    /\ pods[i].pc \in {"idle", "returned"}
    /\ pods[i].calls < MaxCalls
    /\ pods' = [pods EXCEPT ![i] =
                  [@ EXCEPT !.pc = pc, !.kind = kind, !.resp = resp, !.fault = "none",
                            !.blob = <<>>, !.err = "nil", !.calls = @ + 1,
                            !.start = [Episodes |-> pods[i].Episodes,
                                       dir |-> disk[PathOf(i)].dir,
                                       file |-> disk[PathOf(i)].file]]]
    /\ UNCHANGED disk
    /\ TwoFrame

\* instance i returns e
Returns(i, e, fault) ==
    pods' = [pods EXCEPT ![i] = [@ EXCEPT !.pc = "returned", !.err = e, !.fault = fault]]

\* instance i goes on to the statement pc
Goes(i, pc) == pods' = [pods EXCEPT ![i] = [@ EXCEPT !.pc = pc]]

\* p.Sync() is called and the server will answer resp
StartSync(i) == \E resp \in TwoResponses : Begin(i, "Sync", resp, "fetch")

\* lines 55-82: the request, client.Do and the switch on the status
Fetch(i) ==
    /\ pods[i].pc = "fetch"
    /\ IF statusError(pods[i].resp.status) # "nil"
       THEN Returns(i, statusError(pods[i].resp.status), "none")
       ELSE Goes(i, "parse")
    /\ UNCHANGED disk
    /\ TwoFrame

\* lines 85-89: p.Episodes, err = parseEpisodes(resp.Body)
Parse(i) ==
    /\ pods[i].pc = "parse"
    /\ \E p \in {parseEpisodes(pods[i].resp.content)} :
          pods' = [pods EXCEPT ![i] =
                     [@ EXCEPT !.Episodes = p.episodes,
                               !.pc = IF p.err THEN "returned" ELSE "mkdir",
                               !.err = IF p.err THEN "ErrParserIssue" ELSE "nil"]]
    /\ UNCHANGED disk
    /\ TwoFrame

\* lines 91-94: os.MkdirAll(p.Path, os.ModePerm), which can fail when the
\* directory is not there yet
Mkdir(i) ==
    /\ pods[i].pc = "mkdir"
    /\ \/ /\ ~disk[PathOf(i)].dir
          /\ Returns(i, "ErrFilesystemError", "mkdir")
          /\ UNCHANGED disk
       \/ /\ Goes(i, "create")
          /\ disk' = [disk EXCEPT ![PathOf(i)].dir = TRUE]
    /\ TwoFrame

\* lines 96-102: f, err := os.Create(path)
Create(i) ==
    /\ pods[i].pc = "create"
    /\ \/ /\ Returns(i, "ErrFilesystemError", "create")
          /\ UNCHANGED disk
       \/ /\ ~(disk[PathOf(i)].file.exists /\ ~disk[PathOf(i)].file.perm)
          /\ Goes(i, "encode")
          /\ disk' = [disk EXCEPT ![PathOf(i)].file =
                        [exists |-> TRUE, perm |-> TRUE, data |-> <<>>]]
    /\ TwoFrame

\* lines 104-108: blob, err := toGOB64(p.Episodes)
EncodeBlob(i) ==
    /\ pods[i].pc = "encode"
    /\ \E enc \in {toGOB64(pods[i].Episodes)} :
          pods' = [pods EXCEPT ![i] =
                     [@ EXCEPT !.blob = enc.blob,
                               !.pc = IF enc.err THEN "returned" ELSE "write",
                               !.err = IF enc.err THEN "ErrEncodeError" ELSE "nil"]]
    /\ UNCHANGED disk
    /\ TwoFrame

\* lines 109-114: io.Copy(f, blob), which writes at the start of the file
\* Create left empty, and return nil
Write(i) ==
    /\ pods[i].pc = "write"
    /\ \/ /\ Returns(i, "ErrFilesystemError", "write")
          /\ disk' = [disk EXCEPT ![PathOf(i)].file.data = Written(pods[i].blob)]
       \/ /\ Returns(i, "nil", "none")
          /\ disk' = [disk EXCEPT ![PathOf(i)].file.data = pods[i].blob]
    /\ TwoFrame

\* p.Load() is called
StartLoad(i) == Begin(i, "Load", NewPod.resp, "open")

\* lines 118-124: f, err := os.Open(path)
Open(i) ==
    /\ pods[i].pc = "open"
    /\ IF disk[PathOf(i)].file.exists /\ disk[PathOf(i)].file.perm
       THEN Goes(i, "decode")
       ELSE Returns(i, "ErrCouldNotReadFromCache", "none")
    /\ UNCHANGED disk
    /\ TwoFrame

\* lines 126-132: p.Episodes, err = fromGOB64(f)
DecodeFile(i) ==
    /\ pods[i].pc = "decode"
    /\ \E d \in {fromGOB64(disk[PathOf(i)].file.data)} :
          pods' = [pods EXCEPT ![i] =
                     [@ EXCEPT !.Episodes = d.episodes, !.pc = "returned",
                               !.err = IF d.err THEN "ErrCouldNotReadFromCache"
                                       ELSE "nil"]]
    /\ UNCHANGED disk
    /\ TwoFrame

TwoNext ==
    \E i \in Pods :
        \/ StartSync(i) \/ Fetch(i) \/ Parse(i) \/ Mkdir(i) \/ Create(i)
        \/ EncodeBlob(i) \/ Write(i)
        \/ StartLoad(i) \/ Open(i) \/ DecodeFile(i)

SpecTwo == TwoInit /\ [][TwoNext]_vars

(***************************************************************************)
(* Properties of Sync and Load (Spec).                                     *)
(***************************************************************************)
\* C1: when Sync returned nil and the next call is Load, Load returns nil and
\* Episodes after Load is the sequence Sync left in memory, in the same order.
C1_SyncThenLoad ==
    [][(op = "Sync" /\ err = "nil" /\ op' = "Load")
          => (err' = "nil" /\ Episodes' = Episodes)]_vars

\* a Load right after a successful Sync that restored two different Episodes
C1_Witness ==
    /\ op = "Load" /\ afterSync /\ err = "nil"
    /\ Len(Episodes) = 2 /\ Episodes[1] # Episodes[2]

\* C2: the cache file holds exactly the encoding of the Episodes of the most
\* recent Sync that returned nil: a Sync returning nil leaves that encoding in
\* the file, and neither a Sync that returns an error nor a Load changes the file.
C2_CacheHoldsLastSync ==
    [][/\ (op' = "Sync" /\ err' = "nil")
            => feedFile' = [exists |-> TRUE, perm |-> TRUE,
                            data |-> toGOB64(Episodes').blob]
       /\ (op' = "Sync" /\ err' # "nil") => feedFile' = feedFile
       /\ op' = "Load" => feedFile' = feedFile]_vars

\* C3: a Sync that fails before extraction succeeded (request construction,
\* transport, non-200 status, unparseable feed) leaves Episodes as it was.
C3_EarlyFailureKeepsEpisodes ==
    [][(op' = "Sync"
        /\ err' \in {"ErrCouldNotSync", "ErrRequestFailed", "ErrAccessDenied",
                     "ErrFeedNotFound", "ErrParserIssue"})
          => Episodes' = Episodes]_vars

\* C4: the status mapping of a Sync that sent its request: a transport error
\* gives request-failed; 200 goes on to extraction (any error is a later
\* stage's); 401 and 403 give access-denied; 404 gives feed-not-found; every
\* other status gives request-failed.
C4_StatusMapping ==
    (op = "Sync" /\ net.sent) =>
        /\ net.status = 0 => err = "ErrRequestFailed"
        /\ net.status = 200
              => err \in {"nil", "ErrParserIssue", "ErrFilesystemError", "ErrEncodeError"}
        /\ net.status \in {401, 403} => err = "ErrAccessDenied"
        /\ net.status = 404 => err = "ErrFeedNotFound"
        /\ net.status \notin {0, 200, 401, 403, 404} => err = "ErrRequestFailed"

\* a Sync answered with 401
C4_Witness == op = "Sync" /\ net.status = 401 /\ err = "ErrAccessDenied"

\* C5: a Load that cannot open the cache file (it does not exist, or may not be
\* opened) returns ErrCouldNotReadFromCache and leaves Episodes as it was.
C5_LoadWithoutCache ==
    [][(op' = "Load" /\ (~feedFile.exists \/ ~feedFile.perm))
          => (err' = "ErrCouldNotReadFromCache" /\ Episodes' = Episodes)]_vars

\* a failed Load with no cache file that kept the Episodes held in memory
C5_Witness ==
    /\ op = "Load" /\ err = "ErrCouldNotReadFromCache"
    /\ ~feedFile.exists /\ Episodes # <<>>

\* C6: Load, succeeding or failing, sends no HTTP request and leaves the
\* existence and the content of the cache file (and its directory) unchanged.
C6_LoadReadOnly ==
    [][op' = "Load"
          => (feedFile' = feedFile /\ dirExists' = dirExists /\ ~net'.sent)]_vars

\* a successful Load of a non-empty cache
C6_Witness ==
    /\ op = "Load" /\ err = "nil" /\ Episodes # <<>>
    /\ feedFile.exists /\ feedFile.data # <<>> /\ ~net.sent

\* C10: whenever the GET of a Sync returned a response, whatever its status,
\* the response body is closed when Sync returns.
C10_BodyReleased == (op = "Sync" /\ net.status # 0) => ~net.bodyOpen

(***************************************************************************)
(* Properties of parseEpisodes (SpecExtract).                              *)
(***************************************************************************)
\* the items of a feed whose date parses
Parseable(items) == {i \in 1..Len(items) : ~ParseTime(items[i].Date).err}

\* C7: for a parsed feed of N items of which K have an unparseable date,
\* parseEpisodes succeeds and returns N - K Episodes: one per item with a
\* parseable date (title, parsed date, enclosure URL, enclosure length), in
\* the items' order, none with a zero date.
C7_FilterMap ==
    (estage = "done" /\ content.ok) =>
        LET items == content.items
            out == parsed.episodes
            N == Len(items)
            K == N - Cardinality(Parseable(items))
        IN /\ ~parsed.err
           /\ Len(out) = N - K
           /\ \E f \in [1..Len(out) -> 1..N] :
                 /\ \A i, j \in 1..Len(out) : i < j => f[i] < f[j]
                 /\ {f[i] : i \in 1..Len(out)} = Parseable(items)
                 /\ \A i \in 1..Len(out) :
                       out[i] = Episode(items[f[i]].Title,
                                        ParseTime(items[f[i]].Date).t,
                                        items[f[i]].URL, items[f[i]].Length)
           /\ \A i \in 1..Len(out) : out[i].Date # ZeroTime

\* a feed of three items whose second has an unparseable date, extracted to two
C7_Witness ==
    /\ estage = "done" /\ content.ok /\ Len(content.items) = 3
    /\ ParseTime(content.items[2].Date).err
    /\ Len(parsed.episodes) = 2
    /\ parsed.episodes[1] # parsed.episodes[2]

(***************************************************************************)
(* Properties of the codec (SpecCodec).                                    *)
(***************************************************************************)
\* C8 as claimed: for every sequence xs, toGOB64 succeeds and
\* fromGOB64(toGOB64(xs)) returns xs without error.
C8_RoundTripEvery ==
    /\ cstage # "encodeFailed"
    /\ cstage = "decoded" => (~decoded.err /\ decoded.episodes = xs)

\* C8: for every sequence xs that toGOB64 encodes, the empty one included,
\* fromGOB64(toGOB64(xs)) returns xs without error, field for field and in
\* order; toGOB64 fails only for a Date whose zone offset cannot be serialised.
C8_RoundTrip ==
    /\ cstage = "decoded" => (~decoded.err /\ decoded.episodes = xs)
    /\ cstage = "encodeFailed"
          => \E i \in 1..Len(xs) : ~xs[i].Date.utc /\ xs[i].Date.off = -1

\* two different Episodes, one of them the zero Episode, through the codec
C8_Witness ==
    /\ cstage = "decoded" /\ Len(xs) = 2 /\ xs[1] # xs[2]
    /\ ZeroEpisode \in {xs[1], xs[2]}

\* C9: decoding a blob that is not the complete output of encode (cut short,
\* emptied, or altered) never returns, without an error, a sequence other than
\* the one that was encoded.
C9_DamagedNeverDecodesDifferent ==
    (cstage = "decodedDamaged" /\ ~decoded.err) => decoded.episodes = xs


(***************************************************************************)
(* Properties of the stages of Sync and Load (Spec).                       *)
(***************************************************************************)
\* C13: when Sync extracted the episodes and then failed at a persistence
\* stage (MkdirAll, os.Create, toGOB64, io.Copy), it returns an error and
\* Episodes is the sequence extracted from the body it received.
C13_NoRollback ==
    [][(op' = "Sync" /\ last'.stage \in {"mkdir", "create", "encode", "write"})
          => (err' # "nil" /\ Episodes' = parseEpisodes(last'.content).episodes)]_vars

C13_Witness ==
    /\ op = "Sync" /\ last.stage = "write" /\ err = "ErrFilesystemError"
    /\ Episodes # <<>> /\ Episodes = parseEpisodes(last.content).episodes
    /\ feedFile.data # toGOB64(Episodes).blob

\* C14: a Sync that fails at request construction, at the fetch (transport
\* error or status other than 200) or at feed parsing leaves the file system
\* as it was: the directory is not created and the cache file keeps its
\* existence and its content.
C14_EarlyFailureNoFilesystem ==
    [][(op' = "Sync" /\ last'.stage \in {"request", "fetch", "status", "parse"})
          => (err' # "nil" /\ dirExists' = dirExists /\ feedFile' = feedFile)]_vars

C14_Witness ==
    /\ op = "Sync" /\ last.stage = "parse" /\ err = "ErrParserIssue"
    /\ ~dirExists /\ ~feedFile.exists

\* C15: after extraction each failing stage gives its own error: parsing
\* ErrParserIssue, MkdirAll, os.Create and the write ErrFilesystemError,
\* toGOB64 ErrEncodeError; Sync returns nil only when every stage succeeded,
\* and then <Path>/.feed holds the whole blob toGOB64 makes of Episodes.
C15_StageErrors ==
    op = "Sync" =>
        /\ last.stage = "parse" => err = "ErrParserIssue"
        /\ last.stage \in {"mkdir", "create", "write"} => err = "ErrFilesystemError"
        /\ last.stage = "encode" => err = "ErrEncodeError"
        /\ err = "nil" <=> last.stage = "done"
        /\ err = "nil" =>
              /\ ~toGOB64(Episodes).err
              /\ dirExists /\ feedFile.exists
              /\ feedFile.data = toGOB64(Episodes).blob

C15_Witness ==
    op = "Sync" /\ last.stage = "encode" /\ err = "ErrEncodeError" /\ Episodes # <<>>

\* C19: a Load that opened the cache file and could not decode it returns
\* ErrCouldNotReadFromCache and leaves Episodes empty; a failed Load keeps
\* the Episodes it had only when the file could not be opened.
C19_DecodeFailureClears ==
    [][op' = "Load" =>
          /\ last'.stage = "decode" =>
                (err' = "ErrCouldNotReadFromCache" /\ Episodes' = <<>>)
          /\ last'.stage = "open" =>
                (err' = "ErrCouldNotReadFromCache" /\ Episodes' = Episodes)
          /\ (err' # "nil" /\ Episodes # <<>> /\ Episodes' = Episodes) =>
                last'.stage = "open"]_vars

C19_Witness ==
    /\ op = "Load" /\ last.stage = "decode" /\ err = "ErrCouldNotReadFromCache"
    /\ Episodes = <<>> /\ feedFile.exists /\ feedFile.perm /\ feedFile.data # <<>>

(***************************************************************************)
(* Properties of String (SpecString).                                      *)
(***************************************************************************)
EndsWithDots(s) == Len(s) >= 3 /\ SubSeq(s, Len(s) - 2, Len(s)) = Dots

\* C12: in the listing every title longer than titleLength is rendered
\* ending with "..." and titleLength bytes long, as the title handed to the
\* line or as the title field of the line; a title of at most titleLength
\* bytes is rendered unchanged.
C12_TruncatedToCap ==
    sstage = "done" =>
        \A i \in DOMAIN Episodes :
            IF Len(Episodes[i].Title) > titleLength
            THEN \/ Len(listing[i].title) = titleLength /\ EndsWithDots(listing[i].title)
                 \/ Len(listing[i].field) = titleLength /\ EndsWithDots(listing[i].field)
            ELSE listing[i].title = Episodes[i].Title

(***************************************************************************)
(* Properties of the request of Sync (SpecRequest).                        *)
(***************************************************************************)
\* C17: the request Sync sends carries Basic Authentication exactly when
\* the credentials are non-empty, and none only when Username and Password
\* are both empty: with an empty Username and a non-empty Password it is
\* sent with authentication.
C17_AuthWhenCredentials ==
    (last.stage = "built" /\ req.built) =>
        (req.auth <=> (Username # <<>> \/ Password # <<>>))

(***************************************************************************)
(* Properties of Download (SpecDownload).                                  *)
(***************************************************************************)
\* C11: when Download got status 200 and returned nil, the destination
\* directory holds a file named by the last "/"-separated segment of the
\* URL whose content is exactly the response body, whatever a file of that
\* name held before, and a writer that was supplied received exactly the
\* bytes of the file.
C11_DownloadStoresBody ==
    (dl.stage \notin {"off", "new"} /\ dl.err = "nil") =>
        /\ dl.status = StatusOK
        /\ LastSegment(dl.url) \in DOMAIN dfiles
        /\ dfiles[LastSegment(dl.url)].exists
        /\ dfiles[LastSegment(dl.url)].data = dl.body
        /\ dl.writer => observed = dfiles[LastSegment(dl.url)].data

C11_Witness ==
    /\ dl.stage = "done" /\ dl.err = "nil" /\ dl.writer
    /\ dl.url = <<104, 47, 100, 47, 97>>
    /\ Len(dl.body) = MaxBody
    /\ dfiles[<<97>>].data = dl.body /\ observed = dl.body

\* C16: every failure of Download returns ErrCouldNotDownload; when http.Get
\* failed or the status is not 200, no file is created, a file of the
\* destination name is as it was, and the writer received nothing.
C16_DownloadFailure ==
    [][/\ dl'.err \in {"nil", "ErrCouldNotDownload"}
       /\ dl'.stage \in {"get", "status", "create", "copy"} =>
             dl'.err = "ErrCouldNotDownload"
       /\ dl'.stage \in {"get", "status"} => (dfiles' = dfiles /\ observed' = <<>>)]_vars

C16_Witness ==
    /\ dl.stage = "status" /\ dl.err = "ErrCouldNotDownload" /\ dl.writer
    /\ dl.body # <<>> /\ observed = <<>>
    /\ \E n \in DownloadNames : n = LastSegment(dl.url) /\ ~dfiles[n].exists

(***************************************************************************)
(* Properties of the handles (SpecHandles).                                *)
(***************************************************************************)
\* C18: when Sync, Load or Download has returned, with nil or with any
\* error, the cache file Sync or Load opened, the response body Download
\* obtained and the destination file Download created are closed.
C18_HandlesReleased ==
    /\ op \in {"Sync", "Load"} => ~last.fileOpen
    /\ dl.stage \notin {"off", "new"} => (~dl.bodyOpen /\ ~dl.fileOpen)

C18_Witness ==
    /\ op = "Sync" /\ last.stage = "encode" /\ err = "ErrEncodeError"
    /\ SyncOpensFile(last.stage) /\ ~last.fileOpen

(***************************************************************************)
(* Properties of two instances (SpecTwo).                                  *)
(***************************************************************************)
\* what the call instance i has returned from leaves when the instance runs
\* alone: the same call, from the state it started in, with the same answer
\* of the server and the same failure of the file system
Alone(i) ==
    IF pods[i].kind = "Sync"
    THEN SyncOn(TRUE, pods[i].start.Episodes, pods[i].start.dir, pods[i].start.file,
                pods[i].resp, pods[i].fault)
    ELSE LoadOn(pods[i].start.Episodes, pods[i].start.dir, pods[i].start.file)

\* C20: two Podcast instances with distinct cache paths share no state:
\* however the statements of their Sync and Load calls interleave, when a
\* call of an instance has returned, the Episodes of the instance, its cache
\* file and the error returned are what the same call leaves when the
\* instance runs alone.
C20_Independent ==
    \A i \in Pods :
        pods # <<>> /\ pods[i].pc = "returned" =>
            /\ pods[i].Episodes = Alone(i).Episodes
            /\ pods[i].err = Alone(i).err
            /\ disk[PathOf(i)].dir = Alone(i).dirExists
            /\ disk[PathOf(i)].file = Alone(i).feedFile

C20_Witness ==
    /\ pods # <<>>
    /\ pods[1].pc = "returned" /\ pods[1].kind = "Sync" /\ pods[1].err = "nil"
    /\ pods[1].calls = 2 /\ pods[1].Episodes # <<>>
    /\ pods[2].pc = "write" /\ pods[2].calls = 1
    /\ disk[1].file.data # <<>> /\ disk[2].file.data = <<>>

====
